---- MODULE Spec2Model ----
(***************************************************************************)
(* Pomodoro session engine of do-it-with-ease: the zustand pomodoro store  *)
(* (stores/pomodoroStore.ts, Supabase-era version), the TimerPage handlers *)
(* that drive it and keep the id of the remote session record, the         *)
(* preference binding (profile -> setDurations) and the remote session     *)
(* table the handlers write to.                                            *)
(*                                                                         *)
(* Two specifications share the variables:                                 *)
(*   StoreSpec  the exported store API called in any order;                *)
(*   Spec       the application: TimerPage, SettingsPage, profile loads    *)
(*              and the global one-second interval driving the store.      *)
(* The task repository client (hooks/useTasks.ts) has two more:            *)
(*   TaskSpec   the list query and the create / update / delete mutations, *)
(*              with the TimerPage selecting from the cached list;         *)
(*   FilterSpec the list filter applied to every row sequence and filter.  *)
(* FairStoreSpec is StoreSpec with the interval firing for ever, and       *)
(* AuthSpec is the auth store (stores/authStore.ts): signIn, signUp,       *)
(* signOut, the session callbacks and the profile loads they start.        *)
(***************************************************************************)
EXTENDS Integers, Sequences, FiniteSets, TLC

\* ---------------------------------------------------------------- bounds
MaxMinutes == 1          \* profile / settings work durations are 1..MaxMinutes minutes
MaxBreakMinutes == 1     \* short-break durations are 1..MaxBreakMinutes minutes
NumTasks == 2            \* tasks offered by the task list
MaxSessions == 2         \* remote session records created in one behaviour
MaxPending == 1          \* requests of one kind in flight, and timers pending, at once
MaxPausedTicks == 2      \* ticks counted while a pause lasts
MaxResumedTicks == 3     \* ticks counted after the resume that ends a pause
MaxRows == 2             \* rows the remote returns to one list query
MaxFinalizeCalls == 2    \* finalize calls counted per remote session record

\* ------------------------------------------------------ program constants
SecondsPerMinute == 60
DefaultWorkMinutes == 25
DefaultBreakMinutes == 5
MaxPomodoroMinutes == 120     \* updateProfile keeps 0 < pomodoro_duration <= 120
MaxShortBreakMinutes == 60    \* updateProfile keeps 0 < short_break_duration <= 60

Minutes == 1..MaxMinutes
BreakMinutes == 1..MaxBreakMinutes
TaskIds == 1..NumTasks

NoSession == [taskId |-> 0, duration |-> 0]
NoTask == [id |-> 0, completedPomodoros |-> 0, estimatedPomodoros |-> 0]
NoProfile == [pomodoro_duration |-> 0, short_break_duration |-> 0]
NoId == 0
NoUser == 0
UserId == 1
\* email_confirmed_at of a session's user: a timestamp, null, or not there
\* (undefined); NoStamp when the session is null or has no user
NoStamp == "none"
SessionUsers == {"confirmed", "null", "absent"}
NoPriority == ""
NoStatus == ""
NoFilters == [search |-> <<>>, priority |-> NoPriority, status |-> NoStatus, tags |-> <<>>]

VARIABLES
    \* pomodoro store
    currentSession, isRunning, isPaused, timeRemaining, selectedTask,
    workDuration, breakDuration,
    \* TimerPage component
    mounted, selectedTaskId, currentSessionId, createReqs, updateReqs,
    \* auth store, remote tables, user-visible reports
    profile, sessions, tasks, report,
    \* auth store user, and the task query: cached list, its freshness, the
    \* error of the last repository operation
    user, cache, cacheFresh, taskError,
    \* one list query: rows returned by the remote, filters, result
    dbRows, filters, filteredTasks,
    \* history of the store API run: ticks delivered to the session started
    \* last (-1 once the run was disturbed), automatic completions in it
    ticksRun, autoDone,
    \* history of a pause: timeRemaining when pauseSession hit a running
    \* session (-1 without one), ticks delivered during the pause, ticks
    \* delivered since the resume (-1 before it)
    prePause, pausedTicks, resumedTicks,
    \* the last store API call was a pause while Paused ("pause"), a resume
    \* while Running ("resume"), or neither ("none")
    repeated,
    \* handleStart has returned at its guard
    startRefused,
    \* per remote session record, the finalize calls (update requests) issued
    \* for it so far
    finalizeCalls,
    \* auth store: isAuthenticated, the email_confirmed_at of the user held;
    \* loadProfile calls scheduled by setTimeout, loadProfile requests in
    \* flight, and whether the initial getSession has answered
    isAuthenticated, emailConfirmedAt, loadTimers, profileLoads, sessionChecked

storeVars == <<currentSession, isRunning, isPaused, timeRemaining, selectedTask,
               workDuration, breakDuration>>
pageVars == <<mounted, selectedTaskId, currentSessionId, createReqs, updateReqs>>
envVars == <<profile, sessions, tasks, report>>
repoVars == <<user, cache, cacheFresh, taskError>>
listVars == <<dbRows, filters, filteredTasks>>
runHist == <<ticksRun, autoDone, prePause, pausedTicks, resumedTicks, repeated, startRefused>>
histVars == <<runHist, finalizeCalls>>
authVars == <<isAuthenticated, emailConfirmedAt, loadTimers, profileLoads, sessionChecked>>
vars == <<storeVars, pageVars, envVars, repoVars, listVars, histVars, authVars>>

\* sequence s without its i-th element
RemoveAt(s, i) == [j \in 1..(Len(s) - 1) |-> IF j < i THEN s[j] ELSE s[j + 1]]

\* the requests in flight that belong to the mounted TimerPage instance
Live(reqs) == {i \in 1..Len(reqs) : reqs[i].live}

\* the Task object made of row r of task t, as far as the timer reads it
AsTask(t, r) == [id |-> t,
                 completedPomodoros |-> r.completedPomodoros,
                 estimatedPomodoros |-> r.estimatedPomodoros]

\* the tasks of the cached list, and the Task object the list hands to the
\* timer page for task t
Listed == DOMAIN cache

TaskOf(t) == AsTask(t, cache[t])

Idle == currentSession = NoSession /\ ~isRunning /\ ~isPaused

\* ------------------------------------------------------------ the store
startSession(task) ==
    /\ currentSession' = [taskId |-> task.id, duration |-> workDuration]
    /\ selectedTask' = task
    /\ isRunning' = TRUE
    /\ isPaused' = FALSE
    /\ timeRemaining' = workDuration
    /\ UNCHANGED <<workDuration, breakDuration>>

\* pauseSession toggling between Running and Paused
pauseSession_Toggles ==
    /\ isRunning' = ~isRunning
    /\ isPaused' = ~isPaused
    /\ UNCHANGED <<currentSession, selectedTask, timeRemaining, workDuration, breakDuration>>

pauseSession ==
    /\ isRunning' = FALSE
    /\ isPaused' = TRUE
    /\ UNCHANGED <<currentSession, selectedTask, timeRemaining, workDuration, breakDuration>>

resumeSession ==
    /\ isRunning' = TRUE
    /\ isPaused' = FALSE
    /\ UNCHANGED <<currentSession, selectedTask, timeRemaining, workDuration, breakDuration>>

completeSession ==
    IF currentSession # NoSession /\ selectedTask # NoTask
    THEN /\ currentSession' = NoSession
         /\ selectedTask' = NoTask
         /\ isRunning' = FALSE
         /\ isPaused' = FALSE
         /\ timeRemaining' = workDuration
         /\ UNCHANGED <<workDuration, breakDuration>>
    ELSE UNCHANGED storeVars

resetSession ==
    /\ currentSession' = NoSession
    /\ selectedTask' = NoTask
    /\ isRunning' = FALSE
    /\ isPaused' = FALSE
    /\ timeRemaining' = workDuration
    /\ UNCHANGED <<workDuration, breakDuration>>

\* tick completing as soon as the decrement reaches 0
tick_CompleteOnReachingZero ==
    IF isRunning /\ timeRemaining > 1
    THEN /\ timeRemaining' = timeRemaining - 1
         /\ UNCHANGED <<currentSession, selectedTask, isRunning, isPaused,
                        workDuration, breakDuration>>
    ELSE IF isRunning
         THEN completeSession
         ELSE UNCHANGED storeVars

\* tick counting down whenever a session is current, paused or not
tick_IgnoresPause ==
    IF currentSession # NoSession /\ timeRemaining > 0
    THEN /\ timeRemaining' = timeRemaining - 1
         /\ UNCHANGED <<currentSession, selectedTask, isRunning, isPaused,
                        workDuration, breakDuration>>
    ELSE IF isRunning /\ timeRemaining = 0
         THEN completeSession
         ELSE UNCHANGED storeVars

tick ==
    IF isRunning /\ timeRemaining > 0
    THEN /\ timeRemaining' = timeRemaining - 1
         /\ UNCHANGED <<currentSession, selectedTask, isRunning, isPaused,
                        workDuration, breakDuration>>
    ELSE IF isRunning /\ timeRemaining = 0
         THEN completeSession
         ELSE UNCHANGED storeVars

\* setDurations leaving the countdown as it is
setDurations_KeepsTimeRemaining(work, brk) ==
    /\ workDuration' = work * SecondsPerMinute
    /\ breakDuration' = brk * SecondsPerMinute
    /\ UNCHANGED <<currentSession, selectedTask, isRunning, isPaused, timeRemaining>>

setDurations(work, brk) ==
    /\ workDuration' = work * SecondsPerMinute
    /\ breakDuration' = brk * SecondsPerMinute
    /\ timeRemaining' = work * SecondsPerMinute
    /\ UNCHANGED <<currentSession, selectedTask, isRunning, isPaused>>

\* ------------------------------------------ the list filter (useTasks queryFn)
\* Strings are sequences of characters; an optional string is a sequence of
\* at most one string; an undefined search, like the empty one, is <<>>.
Titles == {<<"A">>, <<"b", "C">>}
Descriptions == {<<>>, << <<"a", "B">> >>}
Priorities == {"high", "low"}
TagLists == {<<>>, <<"x", "y">>}
Searches == {<<>>, <<"A", "b">>, <<"C">>}
RequestedTags == {<<>>, <<"y">>, <<"z", "x">>}

\* the rows of the tasks table with their joined tag names
Rows == [title : Titles, description : Descriptions, priority : Priorities,
         is_completed : BOOLEAN, task_tags : TagLists]

RowSeqs == UNION {[1..n -> Rows] : n \in 0..MaxRows}

Filters == [search : Searches, priority : {NoPriority, "high"},
            status : {NoStatus, "completed", "pending"}, tags : RequestedTags]

\* the filters one change of a filter control away from f
OneChange(f) == {g \in Filters : Cardinality({k \in DOMAIN g : g[k] # f[k]}) <= 1}

Range(s) == {s[i] : i \in 1..Len(s)}

LowerChar(c) == CASE c = "A" -> "a" [] c = "B" -> "b" [] c = "C" -> "c" [] OTHER -> c

toLowerCase(s) == [i \in 1..Len(s) |-> LowerChar(s[i])]

\* String.prototype.includes
includes(s, sub) ==
    \E i \in 0..(Len(s) - Len(sub)) : SubSeq(s, i + 1, i + Len(sub)) = sub

transformTask(dbTask) ==
    [title |-> dbTask.title,
     description |-> dbTask.description,
     priority |-> dbTask.priority,
     tags |-> dbTask.task_tags,
     isCompleted |-> dbTask.is_completed]

\* a task matching the tag filter only when it has every requested tag
someTag_Every(requested, tags) ==
    \A k \in 1..Len(requested) : \E j \in 1..Len(tags) : tags[j] = requested[k]

\* filters.tags.some(tag => task.tags.includes(tag))
someTag(requested, tags) ==
    \E k \in 1..Len(requested) : \E j \in 1..Len(tags) : tags[j] = requested[k]

\* task.title.toLowerCase().includes(search) ||
\* task.description?.toLowerCase().includes(search)
searchHit(task, search) ==
    \/ includes(toLowerCase(task.title), search)
    \/ /\ task.description # <<>>
       /\ includes(toLowerCase(task.description[1]), search)

\* queryFn: the remote applies the eq filters, the client the search and
\* the tag filter
queryFn(rows, f) ==
    LET eqTest(r) == /\ f.priority # NoPriority => r.priority = f.priority
                     /\ f.status = "completed" => r.is_completed
                     /\ f.status = "pending" => ~r.is_completed
        data == SelectSeq(rows, eqTest)
        all == [i \in 1..Len(data) |-> transformTask(data[i])]
        search == toLowerCase(f.search)
        searchTest(t) == searchHit(t, search)
        searched == IF f.search # <<>> THEN SelectSeq(all, searchTest) ELSE all
        tagTest(t) == someTag(f.tags, t.tags)
    IN  IF Len(f.tags) > 0 THEN SelectSeq(searched, tagTest) ELSE searched

\* the legacy tasks store: priority, tags, status, search, in this order
applyFilters(list, f) ==
    LET priorityTest(t) == t.priority = f.priority
        byPriority == IF f.priority # NoPriority THEN SelectSeq(list, priorityTest) ELSE list
        tagTest(t) == someTag(f.tags, t.tags)
        byTags == IF Len(f.tags) > 0 THEN SelectSeq(byPriority, tagTest) ELSE byPriority
        statusTest(t) == IF f.status = "completed" THEN t.isCompleted ELSE ~t.isCompleted
        byStatus == IF f.status # NoStatus THEN SelectSeq(byTags, statusTest) ELSE byTags
        search == toLowerCase(f.search)
        searchTest(t) == searchHit(t, search)
    IN  IF f.search # <<>> THEN SelectSeq(byStatus, searchTest) ELSE byStatus

\* ------------------------------------------------------------- initial state
\* the stores, the page and the remote tables before anyone signed in
StartState ==
    /\ currentSession = NoSession
    /\ isRunning = FALSE
    /\ isPaused = FALSE
    /\ timeRemaining = DefaultWorkMinutes * SecondsPerMinute
    /\ selectedTask = NoTask
    /\ workDuration = DefaultWorkMinutes * SecondsPerMinute
    /\ breakDuration = DefaultBreakMinutes * SecondsPerMinute
    /\ mounted = FALSE
    /\ selectedTaskId = NoId
    /\ currentSessionId = NoId
    /\ createReqs = <<>>
    /\ updateReqs = <<>>
    /\ profile = NoProfile
    /\ sessions = <<>>
    /\ tasks = [t \in TaskIds |-> [completedPomodoros |-> 2 * (t % 2),
                                   estimatedPomodoros |-> 4 - 2 * ((t + 1) % 2),
                                   isCompleted |-> FALSE,
                                   tags |-> {"work"}]]
    /\ report = "none"
    /\ cache = <<>>
    /\ cacheFresh = FALSE
    /\ taskError = "none"
    /\ ticksRun = -1
    /\ autoDone = 0
    /\ prePause = -1
    /\ pausedTicks = 0
    /\ resumedTicks = -1
    /\ repeated = "none"
    /\ startRefused = FALSE
    /\ finalizeCalls = <<>>
    /\ loadTimers = 0
    /\ profileLoads = 0
    /\ sessionChecked = FALSE

Init ==
    /\ StartState
    /\ user = NoUser
    /\ isAuthenticated = FALSE
    /\ emailConfirmedAt = NoStamp
    /\ dbRows = <<>>
    /\ filters = NoFilters
    /\ filteredTasks = <<>>

\* ------------------------------------------- the store API, in any order
\* history: no pause is being followed
NoPause ==
    /\ prePause' = -1
    /\ pausedTicks' = 0
    /\ resumedTicks' = -1

ApiStart(t) ==
    /\ startSession(AsTask(t, tasks[t]))
    /\ ticksRun' = 0
    /\ autoDone' = 0
    /\ NoPause
    /\ repeated' = "none"
    /\ UNCHANGED <<startRefused, finalizeCalls, pageVars, envVars, repoVars, listVars, authVars>>

\* a pause hitting a running session starts the history of that pause
ApiPause ==
    /\ pauseSession
    /\ ticksRun' = -1
    /\ IF isRunning /\ currentSession # NoSession
       THEN /\ prePause' = timeRemaining
            /\ pausedTicks' = 0
            /\ resumedTicks' = -1
       ELSE NoPause
    /\ repeated' = IF isPaused /\ ~isRunning THEN "pause" ELSE "none"
    /\ UNCHANGED <<autoDone, startRefused, finalizeCalls, pageVars, envVars, repoVars, listVars, authVars>>

ApiResume ==
    /\ resumeSession
    /\ ticksRun' = -1
    /\ IF prePause >= 0 /\ resumedTicks = -1
       THEN resumedTicks' = 0 /\ UNCHANGED <<prePause, pausedTicks>>
       ELSE NoPause
    /\ repeated' = IF isRunning /\ ~isPaused THEN "resume" ELSE "none"
    /\ UNCHANGED <<autoDone, startRefused, finalizeCalls, pageVars, envVars, repoVars, listVars, authVars>>

ApiComplete ==
    /\ completeSession
    /\ ticksRun' = -1
    /\ NoPause
    /\ repeated' = "none"
    /\ UNCHANGED <<autoDone, startRefused, finalizeCalls, pageVars, envVars, repoVars, listVars, authVars>>

ApiReset ==
    /\ resetSession
    /\ ticksRun' = -1
    /\ NoPause
    /\ repeated' = "none"
    /\ UNCHANGED <<autoDone, startRefused, finalizeCalls, pageVars, envVars, repoVars, listVars, authVars>>

ApiSetDurations(w, b) ==
    /\ setDurations(w, b)
    /\ ticksRun' = -1
    /\ NoPause
    /\ repeated' = "none"
    /\ UNCHANGED <<autoDone, startRefused, finalizeCalls, pageVars, envVars, repoVars, listVars, authVars>>

\* the interval callback; the history counts the ticks of an undisturbed run
\* up to two past the session's duration, the ticks during a pause, and the
\* ticks after its resume while time remains
ApiTick ==
    /\ tick
    /\ ticksRun' = IF ticksRun >= 0 /\ ticksRun < workDuration + 2
                   THEN ticksRun + 1 ELSE ticksRun
    /\ autoDone' = IF ticksRun >= 0 /\ currentSession # NoSession
                      /\ currentSession' = NoSession
                   THEN autoDone + 1 ELSE autoDone
    /\ IF prePause >= 0 /\ resumedTicks = -1
       THEN /\ pausedTicks' = IF pausedTicks < MaxPausedTicks
                              THEN pausedTicks + 1 ELSE pausedTicks
            /\ UNCHANGED <<prePause, resumedTicks>>
       ELSE IF prePause >= 0 /\ resumedTicks < MaxResumedTicks /\ timeRemaining > 0
            THEN resumedTicks' = resumedTicks + 1 /\ UNCHANGED <<prePause, pausedTicks>>
            ELSE NoPause
    /\ repeated' = "none"
    /\ UNCHANGED <<startRefused, finalizeCalls, pageVars, envVars, repoVars, listVars, authVars>>

StoreNext ==
    \/ \E t \in TaskIds : ApiStart(t)
    \/ ApiPause
    \/ ApiResume
    \/ ApiComplete
    \/ ApiReset
    \/ \E w \in Minutes, b \in BreakMinutes : ApiSetDurations(w, b)
    \/ ApiTick

StoreSpec == Init /\ [][StoreNext]_vars

\* the same with the interval firing every second for ever: a tick that
\* would change the state is not put off for ever
FairStoreSpec == StoreSpec /\ WF_vars(ApiTick)

\* ------------------------------------- remote session table (hooks/usePomodoro)
\* create inserts a record in status running and returns its id
RemoteCreate == Append(sessions, "running")

\* update writes the terminal status of record id
RemoteFinalize(id, status) == [sessions EXCEPT ![id] = status]

\* ------------------------------------------------ auth store (stores/authStore)
\* onAuthStateChange / getSession delivering a session of a confirmed user
SignIn ==
    /\ user = NoUser
    /\ user' = UserId
    /\ isAuthenticated' = TRUE
    /\ emailConfirmedAt' = "confirmed"
    /\ UNCHANGED <<cache, cacheFresh, taskError, storeVars, pageVars, envVars,
                   listVars, histVars, loadTimers, profileLoads, sessionChecked>>

\* signOut clears user and profile; the protected routes unmount, and the
\* requests in flight live on
SignOut ==
    /\ user # NoUser
    /\ user' = NoUser
    /\ profile' = NoProfile
    /\ mounted' = FALSE
    /\ selectedTaskId' = NoId
    /\ currentSessionId' = NoId
    /\ createReqs' = [i \in 1..Len(createReqs) |-> [createReqs[i] EXCEPT !.live = FALSE]]
    /\ updateReqs' = [i \in 1..Len(updateReqs) |-> [updateReqs[i] EXCEPT !.live = FALSE]]
    /\ isAuthenticated' = FALSE
    /\ emailConfirmedAt' = NoStamp
    /\ UNCHANGED <<cache, cacheFresh, taskError, storeVars, sessions, tasks, report,
                   listVars, histVars, loadTimers, profileLoads, sessionChecked>>

\* session?.user?.email_confirmed_at !== null: of the three values only null
\* fails the test, and so does no session (undefined !== null)
isEmailConfirmed(stamp) == stamp # "null"

\* signIn's test, !data.user.email_confirmed_at negated: the value is truthy
hasConfirmation(stamp) == stamp = "confirmed"

\* !!session?.user && isEmailConfirmed
shouldAuthenticate(stamp) == stamp # NoStamp /\ isEmailConfirmed(stamp)

\* the events of the auth client with the sessions they carry: SIGNED_OUT
\* carries none, INITIAL_SESSION may
AuthChanges ==
    [event : {"INITIAL_SESSION", "SIGNED_IN", "TOKEN_REFRESHED"}, stamp : SessionUsers]
        \cup [event : {"INITIAL_SESSION", "SIGNED_OUT"}, stamp : {NoStamp}]

\* loadProfile after its await, the select having succeeded: set({profile:
\* data}); a mounted TimerPage reruns its effect on the new profile
loadProfileDone(w, b) ==
    /\ profile' = [pomodoro_duration |-> w, short_break_duration |-> b]
    /\ IF mounted THEN setDurations(w, b) ELSE UNCHANGED storeVars

\* signIn, called on the login page, after signInWithPassword has returned:
\* an error; a user without a confirmation (remote sign-out, error
\* returned); or a confirmed user, which is stored, and loadProfile called
AuthSignIn(outcome) ==
    /\ ~isAuthenticated
    /\ IF outcome = "error" \/ ~hasConfirmation(outcome)
       THEN UNCHANGED vars
       ELSE /\ profileLoads < MaxPending
            /\ user' = UserId
            /\ emailConfirmedAt' = outcome
            /\ isAuthenticated' = TRUE
            /\ profileLoads' = profileLoads + 1
            /\ UNCHANGED <<cache, cacheFresh, taskError, storeVars, pageVars, envVars,
                           listVars, histVars, loadTimers, sessionChecked>>

\* signUp, called on the register page, after supabase.auth.signUp has
\* succeeded: always signed out locally
AuthSignUp ==
    /\ ~isAuthenticated
    /\ user' = NoUser
    /\ emailConfirmedAt' = NoStamp
    /\ isAuthenticated' = FALSE
    /\ UNCHANGED <<cache, cacheFresh, taskError, storeVars, pageVars, envVars,
                   listVars, histVars, loadTimers, profileLoads, sessionChecked>>

\* the onAuthStateChange callback
OnAuthStateChange(event, stamp) ==
    /\ user' = IF stamp = NoStamp THEN NoUser ELSE UserId
    /\ emailConfirmedAt' = stamp
    /\ isAuthenticated' = shouldAuthenticate(stamp)
    /\ IF stamp # NoStamp /\ shouldAuthenticate(stamp) /\ event # "SIGNED_OUT"
       THEN /\ loadTimers < MaxPending
            /\ loadTimers' = loadTimers + 1
            /\ UNCHANGED profile
       ELSE /\ profile' = NoProfile
            /\ UNCHANGED loadTimers
    /\ UNCHANGED <<cache, cacheFresh, taskError, storeVars, pageVars, sessions, tasks,
                   report, listVars, histVars, profileLoads, sessionChecked>>

\* the answer of the getSession call made when the module loads
GetSession(stamp) ==
    /\ ~sessionChecked
    /\ sessionChecked' = TRUE
    /\ user' = IF stamp = NoStamp THEN NoUser ELSE UserId
    /\ emailConfirmedAt' = stamp
    /\ isAuthenticated' = shouldAuthenticate(stamp)
    /\ IF stamp # NoStamp /\ shouldAuthenticate(stamp)
       THEN profileLoads < MaxPending /\ profileLoads' = profileLoads + 1
       ELSE UNCHANGED profileLoads
    /\ UNCHANGED <<cache, cacheFresh, taskError, storeVars, pageVars, envVars,
                   listVars, histVars, loadTimers>>

\* the setTimeout callback of onAuthStateChange: loadProfile up to its await,
\* returning at once without a user
LoadProfileTimer ==
    /\ loadTimers > 0
    /\ loadTimers' = loadTimers - 1
    /\ IF user = NoUser
       THEN UNCHANGED profileLoads
       ELSE profileLoads < MaxPending /\ profileLoads' = profileLoads + 1
    /\ UNCHANGED <<repoVars, storeVars, pageVars, envVars, listVars, histVars,
                   isAuthenticated, emailConfirmedAt, sessionChecked>>

\* loadProfile after its await: the profile row has arrived
LoadProfileResolve(w, b) ==
    /\ profileLoads > 0
    /\ profileLoads' = profileLoads - 1
    /\ loadProfileDone(w, b)
    /\ UNCHANGED <<repoVars, pageVars, sessions, tasks, report, listVars, histVars,
                   isAuthenticated, emailConfirmedAt, loadTimers, sessionChecked>>

\* loadProfile after its await: the select failed, logged to the console
LoadProfileError ==
    /\ profileLoads > 0
    /\ profileLoads' = profileLoads - 1
    /\ report' = "console: Error loading profile"
    /\ UNCHANGED <<repoVars, storeVars, pageVars, profile, sessions, tasks, listVars,
                   histVars, isAuthenticated, emailConfirmedAt, loadTimers, sessionChecked>>

\* the onChange of a duration input: parseInt(e.target.value) || fallback;
\* the typed text is an integer, 0 standing for "0" and for no number
parseIntOr(typed, fallback) == IF typed = 0 THEN fallback ELSE typed

\* the numbers typed: the input's min and max attributes bound its spinner,
\* not its text
TypedMinutes == Minutes \cup {0 - m : m \in Minutes}
TypedBreakMinutes == BreakMinutes \cup {0 - m : m \in BreakMinutes}

\* updateProfile, the update having succeeded: a duration out of range is
\* left out of the update in silence, the rest merged into a loaded profile
updateProfile(updates) ==
    IF profile = NoProfile
    THEN NoProfile
    ELSE [pomodoro_duration |->
              IF updates.pomodoro_duration > 0
                 /\ updates.pomodoro_duration <= MaxPomodoroMinutes
              THEN updates.pomodoro_duration ELSE profile.pomodoro_duration,
          short_break_duration |->
              IF updates.short_break_duration > 0
                 /\ updates.short_break_duration <= MaxShortBreakMinutes
              THEN updates.short_break_duration ELSE profile.short_break_duration]

\* --------------------------------------------- task repository (hooks/useTasks)
NewTaskId == NumTasks + 1
AllTaskIds == 1..NewTaskId

\* the fields of a partial update that mutationFn copies into dbUpdates
CopiedFields == {"isCompleted", "completedPomodoros", "estimatedPomodoros"}

\* partial updates and new tasks handed to the mutations
Updates == {[isCompleted |-> TRUE], [completedPomodoros |-> 3], [tags |-> {"home"}]}
NewTasks == {[estimatedPomodoros |-> 1, tags |-> {"home"}]}

dbUpdates(updates) == [f \in (DOMAIN updates) \cap CopiedFields |-> updates[f]]

\* the remote update of one row
Merge(row, changes) ==
    [f \in DOMAIN row |-> IF f \in DOMAIN changes THEN changes[f] ELSE row[f]]

\* the list query of the timer page, useTasks({status: 'pending'}): queryFn
\* run (by the query while a user is present, by a refetch without one) with
\* the remote answering (ok) or failing
listTasks(ok) ==
    IF user = NoUser
    THEN /\ taskError' = "User not authenticated"
         /\ UNCHANGED <<cache, cacheFresh>>
    ELSE IF ok
    THEN /\ cache' = [t \in {x \in DOMAIN tasks : ~tasks[x].isCompleted} |-> tasks[t]]
         /\ cacheFresh' = TRUE
         /\ taskError' = "none"
    ELSE /\ taskError' = "remote error"
         /\ UNCHANGED <<cache, cacheFresh>>

\* useCreateTask: the insert of the row, then the tag links; onSuccess
\* invalidates the list
createTask(data, outcome) ==
    IF user = NoUser
    THEN /\ taskError' = "User not authenticated"
         /\ UNCHANGED <<tasks, cacheFresh>>
    ELSE IF outcome = "insert failed"
    THEN /\ taskError' = "remote error"
         /\ UNCHANGED <<tasks, cacheFresh>>
    ELSE /\ tasks' = [t \in (DOMAIN tasks) \cup {NewTaskId} |->
                        IF t = NewTaskId
                        THEN [completedPomodoros |-> 0,
                              estimatedPomodoros |-> data.estimatedPomodoros,
                              isCompleted |-> FALSE,
                              tags |-> IF outcome = "ok" THEN data.tags ELSE {}]
                        ELSE tasks[t]]
         /\ IF outcome = "ok"
            THEN cacheFresh' = FALSE /\ taskError' = "none"
            ELSE taskError' = "remote error" /\ UNCHANGED cacheFresh

\* useUpdateTask writing the row although no user is signed in
updateTask_SkipsUserCheck(id, updates, ok) ==
    IF ok /\ id \in DOMAIN tasks
    THEN /\ tasks' = [tasks EXCEPT ![id] = Merge(@, dbUpdates(updates))]
         /\ cacheFresh' = FALSE
         /\ taskError' = "none"
    ELSE /\ taskError' = "remote error"
         /\ UNCHANGED <<tasks, cacheFresh>>

\* useUpdateTask: single() fails when no row of the user has the id
updateTask(id, updates, ok) ==
    IF user = NoUser
    THEN /\ taskError' = "User not authenticated"
         /\ UNCHANGED <<tasks, cacheFresh>>
    ELSE IF ok /\ id \in DOMAIN tasks
    THEN /\ tasks' = [tasks EXCEPT ![id] = Merge(@, dbUpdates(updates))]
         /\ cacheFresh' = FALSE
         /\ taskError' = "none"
    ELSE /\ taskError' = "remote error"
         /\ UNCHANGED <<tasks, cacheFresh>>

\* useDeleteTask
deleteTask(taskId, ok) ==
    IF user = NoUser
    THEN /\ taskError' = "User not authenticated"
         /\ UNCHANGED <<tasks, cacheFresh>>
    ELSE IF ok
    THEN /\ tasks' = [t \in (DOMAIN tasks) \ {taskId} |-> tasks[t]]
         /\ cacheFresh' = FALSE
         /\ taskError' = "none"
    ELSE /\ taskError' = "remote error"
         /\ UNCHANGED <<tasks, cacheFresh>>

ListTasks(ok) ==
    /\ listTasks(ok)
    /\ UNCHANGED <<user, storeVars, pageVars, envVars, listVars, authVars, histVars>>

\* the id the remote gives a new row is referenced nowhere
CreateTask(data, outcome) ==
    /\ NewTaskId \notin (DOMAIN tasks) \cup Listed
    /\ selectedTaskId # NewTaskId
    /\ createTask(data, outcome)
    /\ UNCHANGED <<user, cache, storeVars, pageVars, profile, sessions, report,
                   listVars, authVars, histVars>>

UpdateTask(id, updates, ok) ==
    /\ updateTask(id, updates, ok)
    /\ UNCHANGED <<user, cache, storeVars, pageVars, profile, sessions, report,
                   listVars, authVars, histVars>>

DeleteTask(taskId, ok) ==
    /\ deleteTask(taskId, ok)
    /\ UNCHANGED <<user, cache, storeVars, pageVars, profile, sessions, report,
                   listVars, authVars, histVars>>

\* ------------------------------------------------------------ the application
\* navigation to /timer, a protected route: a fresh TimerPage instance,
\* whose effect pushes the loaded profile's durations into the store
Mount ==
    /\ user # NoUser
    /\ ~mounted
    /\ mounted' = TRUE
    /\ selectedTaskId' = NoId
    /\ currentSessionId' = NoId
    /\ IF profile # NoProfile
       THEN setDurations(profile.pomodoro_duration, profile.short_break_duration)
       ELSE UNCHANGED storeVars
    /\ UNCHANGED <<createReqs, updateReqs, envVars, histVars, repoVars, listVars, authVars>>

\* navigation away: the component state is dropped, the store and the
\* requests in flight live on
Unmount ==
    /\ mounted
    /\ mounted' = FALSE
    /\ selectedTaskId' = NoId
    /\ currentSessionId' = NoId
    /\ createReqs' = [i \in 1..Len(createReqs) |-> [createReqs[i] EXCEPT !.live = FALSE]]
    /\ updateReqs' = [i \in 1..Len(updateReqs) |-> [updateReqs[i] EXCEPT !.live = FALSE]]
    /\ UNCHANGED <<storeVars, envVars, histVars, repoVars, listVars, authVars>>

\* the task Select, offering the listed tasks, disabled while a session is
\* current
SelectTask(t) ==
    /\ mounted
    /\ t \in Listed
    /\ currentSession = NoSession
    /\ selectedTaskId' = t
    /\ UNCHANGED <<storeVars, mounted, currentSessionId, createReqs, updateReqs,
                   envVars, histVars, repoVars, listVars, authVars>>

\* getProgressPercentage: ((workDuration - timeRemaining) / workDuration) * 100,
\* a quotient of floating-point numbers, kept as the fraction num / den; den = 0
\* stands for the NaN or Infinity the division by 0 gives
getProgressPercentage ==
    [num |-> (workDuration - timeRemaining) * 100, den |-> workDuration]

\* handleStart up to its await; the button shows while no session is current
\* and is disabled without a task or while a create is pending
HandleStart ==
    /\ mounted
    /\ currentSession = NoSession
    /\ selectedTaskId # NoId
    /\ selectedTaskId \in Listed
    /\ Live(createReqs) = {}
    /\ Len(createReqs) < MaxPending
    /\ createReqs' = Append(createReqs, [task |-> TaskOf(selectedTaskId), live |-> TRUE])
    /\ UNCHANGED <<storeVars, mounted, selectedTaskId, currentSessionId, updateReqs,
                   envVars, histVars, repoVars, listVars, authVars>>

\* handleStart returning at its guard: the button is enabled by a selected
\* id, and the list holds no task of that id any more
HandleStartRefused ==
    /\ mounted
    /\ currentSession = NoSession
    /\ selectedTaskId # NoId
    /\ selectedTaskId \notin Listed
    /\ startRefused' = TRUE
    /\ UNCHANGED <<storeVars, pageVars, envVars, repoVars, listVars, authVars,
                   ticksRun, autoDone, prePause, pausedTicks, resumedTicks, repeated,
                   finalizeCalls>>

\* handleStart after the await, create succeeded
StartResolve(i) ==
    /\ i \in 1..Len(createReqs)
    /\ Len(sessions) < MaxSessions
    /\ createReqs' = RemoveAt(createReqs, i)
    /\ sessions' = RemoteCreate
    /\ currentSessionId' = IF createReqs[i].live THEN Len(sessions) + 1 ELSE currentSessionId
    /\ startSession(createReqs[i].task)
    /\ report' = "toast: Pomodoro started!"
    /\ finalizeCalls' = Append(finalizeCalls, 0)
    /\ UNCHANGED <<mounted, selectedTaskId, updateReqs, profile, tasks, runHist, repoVars, listVars, authVars>>

\* handleStart starting the local session although the create failed
StartReject_StartsAnyway(i) ==
    /\ i \in 1..Len(createReqs)
    /\ createReqs' = RemoveAt(createReqs, i)
    /\ startSession(createReqs[i].task)
    /\ report' = "toast: Failed to start session."
    /\ UNCHANGED <<mounted, selectedTaskId, currentSessionId, updateReqs,
                   profile, sessions, tasks, histVars, repoVars, listVars, authVars>>

\* handleStart after the await, create failed
StartReject(i) ==
    /\ i \in 1..Len(createReqs)
    /\ createReqs' = RemoveAt(createReqs, i)
    /\ report' = "toast: Failed to start session."
    /\ UNCHANGED <<storeVars, mounted, selectedTaskId, currentSessionId, updateReqs,
                   profile, sessions, tasks, histVars, repoVars, listVars, authVars>>

HandlePlayPause ==
    /\ mounted
    /\ currentSession # NoSession
    /\ IF isRunning THEN pauseSession ELSE resumeSession
    /\ UNCHANGED <<pageVars, envVars, histVars, repoVars, listVars, authVars>>

\* handleComplete / handleReset up to the await; without a session id they
\* run to their end at once. Both buttons are disabled while an update is
\* pending.
Finalize(status) ==
    /\ mounted
    /\ currentSession # NoSession
    /\ Live(updateReqs) = {}
    /\ IF currentSessionId # NoId
       THEN /\ Len(updateReqs) < MaxPending
            /\ updateReqs' = Append(updateReqs,
                   [id |-> currentSessionId, status |-> status, live |-> TRUE])
            /\ finalizeCalls' = [finalizeCalls EXCEPT ![currentSessionId] =
                                    IF @ < MaxFinalizeCalls THEN @ + 1 ELSE @]
            /\ UNCHANGED <<storeVars, currentSessionId>>
       ELSE /\ IF status = "completed" THEN completeSession ELSE resetSession
            /\ currentSessionId' = NoId
            /\ UNCHANGED <<updateReqs, finalizeCalls>>
    /\ UNCHANGED <<mounted, selectedTaskId, createReqs, envVars, runHist, repoVars, listVars, authVars>>

HandleComplete == Finalize("completed")

HandleReset == Finalize("cancelled")

\* handleComplete / handleReset leaving the session in place when the
\* update failed
Finish_KeepOnError(i, ok) ==
    /\ i \in 1..Len(updateReqs)
    /\ updateReqs' = RemoveAt(updateReqs, i)
    /\ sessions' = IF ok THEN RemoteFinalize(updateReqs[i].id, updateReqs[i].status) ELSE sessions
    /\ report' = IF updateReqs[i].status = "completed"
                 THEN IF ok THEN "toast: Pomodoro completed!"
                            ELSE "toast: Failed to complete session."
                 ELSE IF ok THEN report ELSE "console: Failed to update session status"
    /\ IF ok
       THEN /\ IF updateReqs[i].status = "completed" THEN completeSession ELSE resetSession
            /\ currentSessionId' = IF updateReqs[i].live THEN NoId ELSE currentSessionId
       ELSE UNCHANGED <<storeVars, currentSessionId>>
    /\ UNCHANGED <<mounted, selectedTaskId, createReqs, profile, tasks, histVars, repoVars, listVars, authVars>>

\* the rest of handleComplete / handleReset, the update having succeeded
\* (ok) or failed
Finish(i, ok) ==
    /\ i \in 1..Len(updateReqs)
    /\ updateReqs' = RemoveAt(updateReqs, i)
    /\ sessions' = IF ok THEN RemoteFinalize(updateReqs[i].id, updateReqs[i].status) ELSE sessions
    /\ report' = IF updateReqs[i].status = "completed"
                 THEN IF ok THEN "toast: Pomodoro completed!"
                            ELSE "toast: Failed to complete session."
                 ELSE IF ok THEN report ELSE "console: Failed to update session status"
    /\ IF updateReqs[i].status = "completed" THEN completeSession ELSE resetSession
    /\ currentSessionId' = IF updateReqs[i].live THEN NoId ELSE currentSessionId
    /\ UNCHANGED <<mounted, selectedTaskId, createReqs, profile, tasks, histVars, repoVars, listVars, authVars>>

FinishResolve(i) == Finish(i, TRUE)

FinishReject(i) == Finish(i, FALSE)

\* the global setInterval callback
Tick ==
    /\ tick
    /\ UNCHANGED <<pageVars, envVars, histVars, repoVars, listVars, authVars>>

\* loadProfile stores the fetched profile; a mounted TimerPage reruns its
\* effect on the new profile object
LoadProfile(w, b) ==
    /\ user # NoUser
    /\ profile' = [pomodoro_duration |-> w, short_break_duration |-> b]
    /\ IF mounted THEN setDurations(w, b) ELSE UNCHANGED storeVars
    /\ UNCHANGED <<pageVars, sessions, tasks, report, histVars, repoVars, listVars, authVars>>

\* SettingsPage handlePreferencesUpdate, on another route than the timer,
\* with the durations typed into the two inputs: updateProfile succeeded,
\* then setDurations with the form's values
SavePreferences(typedWork, typedBreak) ==
    LET preferences ==
            [pomodoro_duration |-> parseIntOr(typedWork, DefaultWorkMinutes),
             short_break_duration |-> parseIntOr(typedBreak, DefaultBreakMinutes)]
    IN  /\ user # NoUser
        /\ ~mounted
        /\ profile' = updateProfile(preferences)
        /\ setDurations(preferences.pomodoro_duration, preferences.short_break_duration)
        /\ report' = "toast: Preferences Saved"
        /\ UNCHANGED <<pageVars, sessions, tasks, histVars, repoVars, listVars, authVars>>

\* handlePreferencesUpdate, updateProfile failed
SavePreferencesReject ==
    /\ user # NoUser
    /\ ~mounted
    /\ report' = "toast: Failed to update preferences."
    /\ UNCHANGED <<storeVars, pageVars, profile, sessions, tasks, histVars, repoVars, listVars, authVars>>

\* the list query of the timer page answered by the remote
FetchTasks ==
    /\ user # NoUser
    /\ ListTasks(TRUE)

Next ==
    \/ SignIn
    \/ FetchTasks
    \/ Mount
    \/ Unmount
    \/ \E t \in TaskIds : SelectTask(t)
    \/ HandleStart
    \/ \E i \in 1..Len(createReqs) : StartResolve(i)
    \/ \E i \in 1..Len(createReqs) : StartReject(i)
    \/ HandlePlayPause
    \/ HandleComplete
    \/ HandleReset
    \/ \E i \in 1..Len(updateReqs) : FinishResolve(i)
    \/ \E i \in 1..Len(updateReqs) : FinishReject(i)
    \/ Tick
    \/ \E w \in Minutes, b \in BreakMinutes : LoadProfile(w, b)
    \/ \E w \in TypedMinutes, b \in TypedBreakMinutes : SavePreferences(w, b)
    \/ SavePreferencesReject

Spec == Init /\ [][Next]_vars

\* ------------------------------------ the task repository and the task Select
TaskNext ==
    \/ SignIn
    \/ SignOut
    \/ \E ok \in BOOLEAN : ListTasks(ok)
    \/ \E data \in NewTasks, outcome \in {"ok", "insert failed", "tag failed"} :
          CreateTask(data, outcome)
    \/ \E id \in AllTaskIds, updates \in Updates, ok \in BOOLEAN :
          UpdateTask(id, updates, ok)
    \/ \E id \in AllTaskIds, ok \in BOOLEAN : DeleteTask(id, ok)
    \/ Mount
    \/ \E t \in AllTaskIds : SelectTask(t)
    \/ HandleStartRefused

TaskSpec == Init /\ [][TaskNext]_vars

\* ------------------------------------------------- the auth store on its own
\* signIn, signUp and signOut, the two session callbacks, the profile loads
\* they start, and the settings page saving preferences
AuthNext ==
    \/ \E outcome \in SessionUsers \cup {"error"} : AuthSignIn(outcome)
    \/ AuthSignUp
    \/ SignOut
    \/ \E c \in AuthChanges : OnAuthStateChange(c.event, c.stamp)
    \/ \E stamp \in SessionUsers \cup {NoStamp} : GetSession(stamp)
    \/ LoadProfileTimer
    \/ \E w \in Minutes, b \in BreakMinutes : LoadProfileResolve(w, b)
    \/ LoadProfileError
    \/ \E w \in TypedMinutes, b \in TypedBreakMinutes : SavePreferences(w, b)
    \/ SavePreferencesReject

AuthSpec == Init /\ [][AuthNext]_vars

\* ------------------------------------------- the list filter on every input
\* the page's first query, without filters, on any rows
FilterInit ==
    /\ StartState
    /\ user = UserId
    /\ isAuthenticated = TRUE
    /\ emailConfirmedAt = "confirmed"
    /\ dbRows \in RowSeqs
    /\ filters = NoFilters
    /\ filteredTasks = queryFn(dbRows, NoFilters)

\* useTasks(filters): the query run with filters f
QueryTasks(f) ==
    /\ filters' = f
    /\ filteredTasks' = queryFn(dbRows, f)
    /\ UNCHANGED <<dbRows, storeVars, pageVars, envVars, repoVars, histVars, authVars>>

\* the legacy store's setFilters(f), on the same tasks
SetFilters(f) ==
    /\ filters' = f
    /\ filteredTasks' = applyFilters([i \in 1..Len(dbRows) |-> transformTask(dbRows[i])], f)
    /\ UNCHANGED <<dbRows, storeVars, pageVars, envVars, repoVars, histVars, authVars>>

FilterNext ==
    \/ \E f \in OneChange(filters) : QueryTasks(f)
    \/ \E f \in OneChange(filters) : SetFilters(f)

FilterSpec == FilterInit /\ [][FilterNext]_vars

\* =================================================================== claims

\* a step in which the preference binding calls setDurations: the TimerPage
\* effect on mount or on a profile load, or the settings page saving
BindingStep ==
    \/ Mount /\ profile # NoProfile
    \/ \E w \in Minutes, b \in BreakMinutes : LoadProfile(w, b) /\ mounted
    \/ \E w \in TypedMinutes, b \in TypedBreakMinutes : SavePreferences(w, b)

\* C1: a setDurations call made by the preference binding while a session is
\* Running or Paused leaves timeRemaining of that session unchanged.
C1_SetDurationsKeepsTimeRemaining ==
    [][(BindingStep /\ currentSession # NoSession) => timeRemaining' = timeRemaining]_vars

\* a step in which the countdown of the running session expires: the interval
\* callback runs with timeRemaining at 0
TickExpireStep ==
    Tick /\ isRunning /\ timeRemaining = 0 /\ currentSession # NoSession

\* C2: when the countdown of a Running session expires, the engine returns to
\* Idle and the session's remote record, whose id the page holds, is marked
\* completed, as handleComplete does.
C2_AutoCompleteMarksRemote ==
    [][(TickExpireStep /\ currentSessionId # NoId /\ sessions[currentSessionId] = "running")
        => /\ Idle'
           /\ sessions'[currentSessionId] = "completed"]_vars

\* a step that completes the current session: the end of handleComplete
\* (with or without a remote update) or the expiry of the countdown
CompleteStep ==
    /\ currentSession # NoSession
    /\ \/ \E i \in 1..Len(updateReqs) :
             updateReqs[i].status = "completed" /\ (FinishResolve(i) \/ FinishReject(i))
       \/ HandleComplete /\ currentSessionId = NoId
       \/ TickExpireStep

\* C3: completing the session started on task T leaves T.completedPomodoros
\* at its value at Start plus 1 and T.estimatedPomodoros unchanged.
C3_CompleteIncrementsTask ==
    [][CompleteStep =>
        /\ tasks'[selectedTask.id].completedPomodoros = selectedTask.completedPomodoros + 1
        /\ tasks'[selectedTask.id].estimatedPomodoros = selectedTask.estimatedPomodoros]_vars

C5_FailedStartIsNoOp ==
    [][\A i \in 1..Len(createReqs) :
         (createReqs' = RemoveAt(createReqs, i) /\ sessions' = sessions)
         => /\ UNCHANGED storeVars
            /\ Idle => Idle'
            /\ currentSessionId' = currentSessionId
            /\ tasks' = tasks
            /\ report' = "toast: Failed to start session."]_vars

C5_Witness ==
    /\ report = "toast: Failed to start session."
    /\ sessions = <<>>
    /\ createReqs = <<>>
    /\ mounted /\ selectedTaskId # NoId
    /\ Idle /\ currentSessionId = NoId

\* C6: when the remote update of a Complete fails (its request leaves the
\* pending set and the record is not completed), the engine is Idle with
\* timeRemaining = workDuration, the page no longer holds the session id, no
\* request for it remains, and the error is shown.
C6_FailedCompleteStillIdle ==
    [][\A i \in 1..Len(updateReqs) :
         (updateReqs[i].status = "completed" /\ updateReqs' = RemoveAt(updateReqs, i)
            /\ sessions'[updateReqs[i].id] # "completed")
         => /\ Idle'
            /\ timeRemaining' = workDuration'
            /\ currentSessionId' # updateReqs[i].id
            /\ updateReqs[i].live => currentSessionId' = NoId
            /\ \A j \in 1..Len(updateReqs') : updateReqs'[j].id # updateReqs[i].id
            /\ report' = "toast: Failed to complete session."]_vars

C6_Witness ==
    /\ report = "toast: Failed to complete session."
    /\ Len(sessions) = 1 /\ sessions[1] = "running"
    /\ updateReqs = <<>> /\ createReqs = <<>>
    /\ mounted /\ currentSessionId = NoId
    /\ Idle /\ timeRemaining = workDuration

\* a step in which handleReset runs to its end on a current session: at
\* once when the page holds no session id, else when the update has returned
ResetDoneStep ==
    /\ currentSession # NoSession
    /\ \/ HandleReset /\ currentSessionId = NoId
       \/ \E i \in 1..Len(updateReqs) :
             updateReqs[i].status = "cancelled" /\ (FinishResolve(i) \/ FinishReject(i))

\* C7: a Reset of the session started on T ends with the engine Idle,
\* timeRemaining = workDuration and T's counters as they were, and with the
\* session's remote record marked cancelled unless the cancel call failed.
C7_ResetCancelsRemote ==
    [][ResetDoneStep =>
        /\ Idle'
        /\ timeRemaining' = workDuration'
        /\ tasks' = tasks
        /\ \/ \E i \in 1..Len(updateReqs) :
                 updateReqs[i].status = "cancelled" /\ FinishReject(i)
           \/ \E i \in 1..Len(sessions) :
                 sessions[i] = "running" /\ sessions'[i] = "cancelled"]_vars

\* C8: isRunning implies a current session.
C8_RunningHasSession == isRunning => currentSession # NoSession

\* C9: isPaused implies a current session and not running.
C9_PausedHasSession == isPaused => (currentSession # NoSession /\ ~isRunning)

\* C10: without a current session timeRemaining is the reset baseline.
C10_IdleBaseline == currentSession = NoSession => timeRemaining = workDuration

\* C11: in every reachable state 0 <= timeRemaining <= workDuration, whatever
\* durations the settings page or a loaded profile hand to setDurations.
C11_TimeRemainingInRange == 0 <= timeRemaining /\ timeRemaining <= workDuration

\* C12: a tick delivered while the engine is Paused or Idle changes no
\* engine field; and from the pause of a running session on, through the
\* ticks of the pause, the resume and n more ticks (n at most the time
\* remaining), timeRemaining is its value at the pause minus n.
C12_PauseStopsTheCountdown ==
    /\ [][(ApiTick /\ (isPaused \/ Idle)) => UNCHANGED storeVars]_vars
    /\ [](prePause >= 0 =>
            IF resumedTicks = -1
            THEN isPaused /\ timeRemaining = prePause
            ELSE timeRemaining = prePause - resumedTicks)

C12_Witness ==
    /\ prePause >= MaxResumedTicks
    /\ pausedTicks = MaxPausedTicks
    /\ resumedTicks = MaxResumedTicks
    /\ isRunning /\ currentSession # NoSession
    /\ timeRemaining = prePause - MaxResumedTicks

\* C13: pauseSession called while Paused, and resumeSession called while
\* Running, change no engine field and nothing of the remote tables or of
\* the requests in flight.
C13_RepeatedPauseResumeNoOp ==
    [][((ApiPause /\ isPaused /\ ~isRunning) \/ (ApiResume /\ isRunning /\ ~isPaused))
        => UNCHANGED <<storeVars, sessions, tasks, createReqs, updateReqs>>]_vars

C13_Witness ==
    /\ repeated = "pause"
    /\ isPaused /\ ~isRunning
    /\ currentSession # NoSession
    /\ timeRemaining < workDuration

\* C14: a Start attempt whose selected id matches no listed task is rejected
\* with a validation error shown, creates no remote session, and changes no
\* engine state.
C14_StartWithoutTaskRejected ==
    [][HandleStartRefused =>
        /\ report' = "ValidationError"
        /\ createReqs' = createReqs
        /\ sessions' = sessions
        /\ UNCHANGED storeVars]_vars

\* C15: startSession called while a session is current leaves
\* currentSession, timeRemaining and selectedTask as they are.
C15_StartKeepsCurrentSession ==
    [][(currentSession # NoSession /\ \E t \in TaskIds : ApiStart(t))
        => UNCHANGED <<currentSession, timeRemaining, selectedTask>>]_vars

\* C16: while a session stays current, workDuration and breakDuration keep
\* their values.
C16_ConfigFrozenInSession ==
    [][(currentSession # NoSession /\ currentSession' # NoSession)
        => UNCHANGED <<workDuration, breakDuration>>]_vars

\* C17: after a step of the preference binding (the TimerPage effect on a
\* loaded or changed profile, or the settings page saving), the store's
\* durations are 60 times the durations of the profile the auth store holds.
C17_DurationsFollowProfile ==
    [][(BindingStep /\ profile' # NoProfile)
        => /\ workDuration' = SecondsPerMinute * profile'.pomodoro_duration
           /\ breakDuration' = SecondsPerMinute * profile'.short_break_duration]_vars

\* what the list filter is to return: task t passes every active filter
Satisfies(t, f) ==
    /\ f.priority # NoPriority => t.priority = f.priority
    /\ f.status = "completed" => t.isCompleted
    /\ f.status = "pending" => ~t.isCompleted
    /\ f.search # <<>> =>
          \/ includes(toLowerCase(t.title), toLowerCase(f.search))
          \/ \E d \in Range(t.description) : includes(toLowerCase(d), toLowerCase(f.search))
    /\ f.tags # <<>> => Range(t.tags) \cap Range(f.tags) # {}

\* C18: the filtered list is exactly the input tasks that satisfy all active
\* filters, in their original order.
C18_FilterExact ==
    LET input == [i \in 1..Len(dbRows) |-> transformTask(dbRows[i])]
        kept == {i \in 1..Len(input) : Satisfies(input[i], filters)}
        Nth(k) == CHOOSE i \in kept : Cardinality({j \in kept : j < i}) = k - 1
    IN  /\ Len(filteredTasks) = Cardinality(kept)
        /\ \A k \in 1..Len(filteredTasks) : filteredTasks[k] = input[Nth(k)]

C18_Witness ==
    /\ filters.search # <<>>
    /\ filters.tags # <<>>
    /\ Len(dbRows) = MaxRows
    /\ Len(filteredTasks) = 1
    /\ filteredTasks[1] = transformTask(dbRows[MaxRows])
    /\ filteredTasks[1] # transformTask(dbRows[1])

\* C19: a successful update of an existing task sets every supplied field to
\* the supplied value and leaves every other field, and every other task,
\* as it was.
C19_UpdateIsPartialMerge ==
    [][\A id \in AllTaskIds, u \in Updates :
         (user # NoUser /\ id \in DOMAIN tasks /\ UpdateTask(id, u, TRUE))
         => /\ DOMAIN tasks' = DOMAIN tasks
            /\ \A f \in DOMAIN tasks[id] :
                  tasks'[id][f] = IF f \in DOMAIN u THEN u[f] ELSE tasks[id][f]
            /\ \A o \in (DOMAIN tasks) \ {id} : tasks'[o] = tasks[o]]_vars

\* a step of a task repository operation: list, create, update or delete
RepositoryStep ==
    \/ \E ok \in BOOLEAN : ListTasks(ok)
    \/ \E data \in NewTasks, outcome \in {"ok", "insert failed", "tag failed"} :
          CreateTask(data, outcome)
    \/ \E id \in AllTaskIds, updates \in Updates, ok \in BOOLEAN :
          UpdateTask(id, updates, ok)
    \/ \E id \in AllTaskIds, ok \in BOOLEAN : DeleteTask(id, ok)

\* C20: a repository operation attempted without a user ends with the
\* not-authenticated error, the remote table untouched and the cached list
\* and its freshness as they were.
C20_NoUserRejected ==
    [][(user = NoUser /\ RepositoryStep)
        => /\ taskError' = "User not authenticated"
           /\ tasks' = tasks
           /\ cache' = cache
           /\ cacheFresh' = cacheFresh]_vars

C20_Witness ==
    /\ user = NoUser
    /\ taskError = "User not authenticated"
    /\ cacheFresh
    /\ cache # <<>>
    /\ DOMAIN tasks = TaskIds

\* C21: a repository operation that has changed the remote task table leaves
\* the cached list invalidated, a create that inserted the row and then failed
\* on a tag included.
C21_MutationInvalidates ==
    [][(RepositoryStep /\ tasks' # tasks) => ~cacheFresh']_vars

\* the fraction q, as a number, lies in [0, 100]
InPercentRange(q) ==
    /\ q.den # 0
    /\ q.num * q.den >= 0
    /\ (IF q.num < 0 THEN 0 - q.num ELSE q.num)
           <= 100 * (IF q.den < 0 THEN 0 - q.den ELSE q.den)

\* C22: the progress percentage the timer page computes is a number of
\* [0, 100] in every reachable state.
C22_ProgressInRange == InPercentRange(getProgressPercentage)

C22_Witness ==
    /\ workDuration # DefaultWorkMinutes * SecondsPerMinute
    /\ currentSession # NoSession
    /\ isRunning
    /\ timeRemaining = 0
    /\ getProgressPercentage.num = 100 * getProgressPercentage.den

\* handleReset has been called on the session the page holds, and its remote
\* cancel call has not returned
ResetPending ==
    /\ currentSession # NoSession
    /\ \E i \in Live(updateReqs) :
          updateReqs[i].status = "cancelled" /\ updateReqs[i].id = currentSessionId

\* C23: while the remote cancel call of a Reset is pending, the interval
\* callback neither decrements timeRemaining nor completes the session.
C23_NoTickAfterReset ==
    [][(Tick /\ ResetPending)
        => UNCHANGED <<timeRemaining, currentSession, isRunning>>]_vars

\* C24: Start is accepted only when no finalize request of the page is
\* outstanding and the engine is Idle.
C24_NoStartDuringFinalize ==
    [][HandleStart => (Live(updateReqs) = {} /\ Idle)]_vars

\* C26: whenever the engine holds a current session, the page holds the id
\* of the remote record created for it.
C26_SessionHasRemoteId ==
    currentSession # NoSession =>
        (currentSessionId # NoId /\ currentSessionId \in 1..Len(sessions))

\* a step in which the continuation of the Complete or Reset request i runs
\* while the page holds the id of another record than the request's
FinishOfOlderStep(i) ==
    /\ FinishResolve(i) \/ FinishReject(i)
    /\ currentSession # NoSession
    /\ currentSessionId # NoId
    /\ currentSessionId # updateReqs[i].id

\* C27: the continuation of a Complete or Reset request issued for an earlier
\* session leaves the session current now, and its remote id, in place.
C27_FinishEndsOwnSession ==
    [][\A i \in 1..Len(updateReqs) :
         FinishOfOlderStep(i)
         => UNCHANGED <<currentSession, selectedTask, isRunning, currentSessionId>>]_vars

\* C25: a step adds a remote session record exactly when it is the Start
\* whose create succeeded, and then adds one; and no record has had more
\* than one finalize call issued for it.
C25_OneRecordOneFinalize ==
    /\ [][Len(sessions') = Len(sessions) +
              (IF \E i \in 1..Len(createReqs) : StartResolve(i) THEN 1 ELSE 0)]_vars
    /\ [](/\ Len(finalizeCalls) = Len(sessions)
          /\ \A id \in 1..Len(sessions) : finalizeCalls[id] <= 1)

C25_Witness ==
    /\ Len(sessions) = 2
    /\ finalizeCalls = <<1, 1>>
    /\ sessions[1] = "running"
    /\ sessions[2] = "cancelled"
    /\ updateReqs = <<>>
    /\ Idle

\* C28: when from some point on nothing but ticks happens, the store is
\* eventually never running again: a running store reaches Idle and does
\* not stay running with timeRemaining = 0.
C28_RunningReachesIdle ==
    <>[][ApiTick]_vars => <>[](~isRunning)

\* C29: whenever the auth store holds a profile it holds a user.
C29_ProfileHasUser == profile # NoProfile => user # NoUser

\* C30: isAuthenticated is true only while the store holds a user whose
\* email confirmation timestamp is there.
C30_AuthenticatedIsConfirmed ==
    isAuthenticated => (user # NoUser /\ emailConfirmedAt = "confirmed")

====
